---- MODULE Spec2Model ----
(***************************************************************************)
(* The modpack updater of src/src/main.rs: one run of `main` looks up the  *)
(* latest release, asks for a launcher, selects the launcher's asset,      *)
(* fetches it (cache or verified download), and installs it into the       *)
(* launcher's instance directory.                                          *)
(*                                                                         *)
(* Spec      : `main` from its first line, as written.                     *)
(* SpecBody  : the body of the `if let Some(asset)` branch from line 113   *)
(*             on (cache lookup, download, install), run repeatedly over   *)
(*             one filesystem, for any value of the checksum `sha256`.     *)
(* SpecConcurrent : two runs of that body at the same time, interleaved   *)
(*             between filesystem operations.                              *)
(***************************************************************************)
EXTENDS Integers, Sequences, FiniteSets, TLC

VARIABLES
    pc,             \* position of the run in main / download_file
    result,         \* Running, Ok, Panic or the context string of the error
    printed,        \* lines written to stdout after the prompt
    visited,        \* positions this run has executed
    run,            \* number of the run (runs follow each other)
    release,        \* latest_release.assets, once fetched
    choice,         \* the trimmed line read from stdin
    artifact_name,  \* line 98
    asset,          \* the asset found at line 104, or NoAsset
    sha256,         \* line 111
    env,            \* the environment variables of the process
    response,       \* body bytes the server has still to send
    received,       \* body bytes the server has sent to this run
    requests,       \* GET requests sent by this run
    content,        \* the Vec<u8> of download_file / `content` of main
    todo,           \* names read_dir has still to yield to remove_dir_contents
    archive,        \* entries of the archive still to extract
    target_dir,     \* line 144
    cache,          \* files of <temp>/originalife_s4_cache: path -> bytes
    cwd,            \* files of the working directory: name -> bytes
    dirs,           \* instance directories: path -> (entry name -> entry)
    start,          \* the filesystem as the run found it
    fetched,        \* cache path -> what the first run that fetched it got
    suspended       \* a concurrent run that waits for the processor, if any

vars == <<pc, result, printed, visited, run, release, choice, artifact_name, asset,
          sha256, env, response, received, requests, content, todo, archive,
          target_dir, cache, cwd, dirs, start, fetched, suspended>>

process == <<env, suspended>>
inputs == <<release, choice, artifact_name, asset, process>>
network == <<response, received, requests>>
install == <<todo, archive, target_dir>>
files == <<cache, cwd, dirs>>

(***************************************************************************)
(* Bounds of the model.                                                    *)
(***************************************************************************)
MaxLen == 2         \* longest body a server sends, in bytes
MaxAssets == 2      \* most assets a release lists
MaxRuns == 2        \* runs that follow each other over one filesystem

Bytes == {0, 255}
Contents == UNION {[1..n -> Bytes] : n \in 0..MaxLen}

(***************************************************************************)
(* SHA-256 (sha2::Sha256, lines 61-63) on 32-bit words kept as pairs of    *)
(* 16-bit halves <<high, low>>, and the {:x} formatting of line 64.        *)
(***************************************************************************)
Pow2(n) == 2 ^ n

\* exclusive or and conjunction of two 4-bit numbers, bit by bit
Xor4(a, b) ==
    (((a \div 8) + (b \div 8)) % 2) * 8 + ((((a \div 4) % 2) + ((b \div 4) % 2)) % 2) * 4
      + ((((a \div 2) % 2) + ((b \div 2) % 2)) % 2) * 2 + (((a % 2) + (b % 2)) % 2)
And4(a, b) ==
    ((a \div 8) * (b \div 8)) * 8 + (((a \div 4) % 2) * ((b \div 4) % 2)) * 4
      + (((a \div 2) % 2) * ((b \div 2) % 2)) * 2 + ((a % 2) * (b % 2))

\* ... and of two 16-bit numbers, four bits at a time
Xor16(a, b) ==
    Xor4(a \div 4096, b \div 4096) * 4096
      + Xor4((a \div 256) % 16, (b \div 256) % 16) * 256
      + Xor4((a \div 16) % 16, (b \div 16) % 16) * 16 + Xor4(a % 16, b % 16)
And16(a, b) ==
    And4(a \div 4096, b \div 4096) * 4096
      + And4((a \div 256) % 16, (b \div 256) % 16) * 256
      + And4((a \div 16) % 16, (b \div 16) % 16) * 16 + And4(a % 16, b % 16)

WXor(a, b) == <<Xor16(a[1], b[1]), Xor16(a[2], b[2])>>
WAnd(a, b) == <<And16(a[1], b[1]), And16(a[2], b[2])>>
WNot(a) == <<65535 - a[1], 65535 - a[2]>>
WAdd(a, b) ==
    LET lo == a[2] + b[2]
        hi == a[1] + b[1] + (lo \div 65536)
    IN  <<hi % 65536, lo % 65536>>

RotrSmall(w, n) ==
    IF n = 0 THEN w
    ELSE <<(w[1] \div Pow2(n)) + ((w[2] % Pow2(n)) * Pow2(16 - n)),
           (w[2] \div Pow2(n)) + ((w[1] % Pow2(n)) * Pow2(16 - n))>>
Rotr(w, n) == IF n < 16 THEN RotrSmall(w, n) ELSE RotrSmall(<<w[2], w[1]>>, n - 16)
Shr(w, n) ==
    IF n < 16
    THEN <<w[1] \div Pow2(n), (w[2] \div Pow2(n)) + ((w[1] % Pow2(n)) * Pow2(16 - n))>>
    ELSE <<0, w[1] \div Pow2(n - 16)>>

BigSigma0(a) == WXor(WXor(Rotr(a, 2), Rotr(a, 13)), Rotr(a, 22))
BigSigma1(e) == WXor(WXor(Rotr(e, 6), Rotr(e, 11)), Rotr(e, 25))
SmallSigma0(w) == WXor(WXor(Rotr(w, 7), Rotr(w, 18)), Shr(w, 3))
SmallSigma1(w) == WXor(WXor(Rotr(w, 17), Rotr(w, 19)), Shr(w, 10))
Ch(e, f, g) == WXor(WAnd(e, f), WAnd(WNot(e), g))
Maj(a, b, c) == WXor(WXor(WAnd(a, b), WAnd(a, c)), WAnd(b, c))

K ==
    << <<17034, 12184>>, <<28983, 17553>>, <<46528, 64463>>, <<59829, 56229>>,
       <<14678, 49755>>, <<23025, 4593>>, <<37439, 33444>>, <<43804, 24277>>,
       <<55303, 43672>>, <<4739, 23297>>, <<9265, 34238>>, <<21772, 32195>>,
       <<29374, 23924>>, <<32990, 45566>>, <<39900, 1703>>, <<49563, 61812>>,
       <<58523, 27073>>, <<61374, 18310>>, <<4033, 40390>>, <<9228, 41420>>,
       <<11753, 11375>>, <<19060, 33962>>, <<23728, 43484>>, <<30457, 35034>>,
       <<38974, 20818>>, <<43057, 50797>>, <<45059, 10184>>, <<48985, 32711>>,
       <<50912, 3059>>, <<54695, 37191>>, <<1738, 25425>>, <<5161, 10599>>,
       <<10167, 2693>>, <<11803, 8504>>, <<19756, 28156>>, <<21304, 3347>>,
       <<25866, 29524>>, <<30314, 2747>>, <<33218, 51502>>, <<37490, 11397>>,
       <<41663, 59553>>, <<43034, 26187>>, <<49739, 35696>>, <<51052, 20899>>,
       <<53650, 59417>>, <<54937, 1572>>, <<62478, 13701>>, <<4202, 41072>>,
       <<6564, 49430>>, <<7735, 27656>>, <<10056, 30540>>, <<13488, 48309>>,
       <<14620, 3251>>, <<20184, 43594>>, <<23452, 51791>>, <<26670, 28659>>,
       <<29839, 33518>>, <<30885, 25455>>, <<33992, 30740>>, <<36039, 520>>,
       <<37054, 65530>>, <<42064, 27883>>, <<48889, 41975>>, <<50801, 30962>> >>
H0 ==
    << <<27145, 58983>>, <<47975, 44677>>, <<15470, 62322>>, <<42319, 62778>>,
       <<20750, 21119>>, <<39685, 26764>>, <<8067, 55723>>, <<23520, 52505>> >>

\* message padding: 0x80, zeros up to 56 mod 64, the bit length in 8 bytes
ZeroPad(n) == [i \in 1..n |-> 0]
Padded(m) ==
    LET L == Len(m)
        z == (55 - L) % 64
        bits == 8 * L
    IN  m \o <<128>> \o ZeroPad(z) \o ZeroPad(4)
          \o <<(bits \div 16777216) % 256, (bits \div 65536) % 256,
               (bits \div 256) % 256, bits % 256>>

BlockWord(p, blk, t) ==
    LET o == (64 * blk) + (4 * t)
    IN  <<(p[o + 1] * 256) + p[o + 2], (p[o + 3] * 256) + p[o + 4]>>

\* word t + 1 of the message schedule, after the words w[1..t]
NextWord(p, blk, w) ==
    LET t == Len(w)
    IN  IF t < 16 THEN BlockWord(p, blk, t)
        ELSE WAdd(WAdd(SmallSigma1(w[t - 1]), w[t - 6]),
                  WAdd(SmallSigma0(w[t - 14]), w[t - 15]))

\* the message schedule w extended to n words; the first half is evaluated
\* before the second is started
RECURSIVE Schedule(_, _, _, _)
Schedule(p, blk, w, n) ==
    IF n = Len(w) + 1 THEN Append(w, NextWord(p, blk, w))
    ELSE LET m == (Len(w) + n) \div 2
             half == Schedule(p, blk, w, m)
         IN  IF Len(half) = m THEN Schedule(p, blk, half, n) ELSE half

Round(s, k, w) ==
    LET t1 == WAdd(WAdd(WAdd(s[8], BigSigma1(s[5])), WAdd(Ch(s[5], s[6], s[7]), k)), w)
        t2 == WAdd(BigSigma0(s[1]), Maj(s[1], s[2], s[3]))
    IN  <<WAdd(t1, t2), s[1], s[2], s[3], WAdd(s[4], t1), s[5], s[6], s[7]>>

\* rounds lo + 1 .. hi of the compression, from the working variables s; the
\* first half is evaluated before the second is started
RECURSIVE Rounds(_, _, _, _)
Rounds(s, w, lo, hi) ==
    IF hi = lo + 1 THEN Round(s, K[hi], w[hi])
    ELSE LET m == (lo + hi) \div 2
             half == Rounds(s, w, lo, m)
         IN  IF Len(half) = 8 THEN Rounds(half, w, m, hi) ELSE half

RECURSIVE Compress(_, _)
Compress(p, n) ==
    IF n = 0 THEN H0
    ELSE LET h == Compress(p, n - 1)
             w == Schedule(p, n - 1, <<>>, 64)
             s == Rounds(h, w, 0, 64)
         IN  [i \in 1..8 |-> WAdd(h[i], s[i])]

Sha256(m) == LET p == Padded(m) IN Compress(p, Len(p) \div 64)

HexDigit == <<"0", "1", "2", "3", "4", "5", "6", "7", "8", "9", "a", "b", "c", "d", "e", "f">>
Hex16(n) == HexDigit[(n \div 4096) + 1] \o HexDigit[((n \div 256) % 16) + 1]
              \o HexDigit[((n \div 16) % 16) + 1] \o HexDigit[(n % 16) + 1]
\* line 64, format!("{:x}", result): the 32 bytes as 64 lower-case hex digits
LowerHex(d) ==
    Hex16(d[1][1]) \o Hex16(d[1][2]) \o Hex16(d[2][1]) \o Hex16(d[2][2])
      \o Hex16(d[3][1]) \o Hex16(d[3][2]) \o Hex16(d[4][1]) \o Hex16(d[4][2])
      \o Hex16(d[5][1]) \o Hex16(d[5][2]) \o Hex16(d[6][1]) \o Hex16(d[6][2])
      \o Hex16(d[7][1]) \o Hex16(d[7][2]) \o Hex16(d[8][1]) \o Hex16(d[8][2])
Sha256Hex(m) == LowerHex(Sha256(m))


\* the bodies of the model with their digests, computed once
Digests == {<<c, Sha256Hex(c)>> : c \in Contents}

\* lines 61-64: the digest of the downloaded content, as download_file compares it
downloaded_sha256(c) == (CHOOSE d \in Digests : d[1] = c)[2]

(***************************************************************************)
(* Values.  Option<T> is a sequence: <<>> is None, <<x>> is Some(x).       *)
(***************************************************************************)
None == <<>>
Some(x) == <<x>>

Running == "running"
Ok == "Ok(())"
Panic == "panicked: byte index 64 is out of bounds"

NoFiles == [p \in {} |-> <<>>]
WriteFile(fs, p, bytes) == (p :> bytes) @@ fs
RemoveFile(fs, p) == [q \in DOMAIN fs \ {p} |-> fs[q]]

\* a write through the handle of a file created before: when the file has
\* been deleted since, the bytes go to no name of the filesystem
WriteOpenFile(fs, p, bytes) == IF p \in DOMAIN fs THEN WriteFile(fs, p, bytes) ELSE fs

(***************************************************************************)
(* Line 96: str::trim on the line read from stdin, a sequence of           *)
(* characters; the result is the string `choice`.                          *)
(***************************************************************************)
IsWhitespace(c) == c \in {" ", "\t", "\n", "\r"}

RECURSIVE TrimStart(_)
TrimStart(s) ==
    IF s = <<>> \/ ~IsWhitespace(Head(s)) THEN s ELSE TrimStart(Tail(s))

RECURSIVE TrimEnd(_)
TrimEnd(s) ==
    IF s = <<>> \/ ~IsWhitespace(s[Len(s)]) THEN s
    ELSE TrimEnd(SubSeq(s, 1, Len(s) - 1))

RECURSIVE Str(_)
Str(s) == IF s = <<>> THEN "" ELSE Head(s) \o Str(Tail(s))

trim(line) == Str(TrimEnd(TrimStart(line)))

\* what the user may type: a line, with its line ending; <<>> is end of input
Lines ==
    { <<"1", "\n">>, <<" ", "2", "\r", "\n">>, <<"3", "\n">>, <<"9", "\n">>,
      <<"1", " ", "2", "\n">>, <<"\n">>, <<"\t", "3", " ">>, <<>> }

(***************************************************************************)
(* Lines 98-108: the asset the launcher choice asks for.                   *)
(***************************************************************************)
ArtifactName(c) ==
    CASE c = "1" -> "updated-pack-modrinth.zip"
      [] c = "2" -> "updated-pack-curseforge.zip"
      [] OTHER -> "updated-pack-prism.zip"

\* a name as a release prefixes it with the digest of the file
HashedName == downloaded_sha256(<<255, 0>>) \o "-updated-pack-prism.zip"

AssetNames ==
    { "updated-pack-modrinth.zip", "updated-pack-curseforge.zip",
      "updated-pack-prism.zip", "changelog.md", HashedName }

Asset(n) ==
    [name |-> n,
     browser_download_url |-> "https://github.com/releases/download/" \o n]

\* the asset lists of a release: names are unique within a release
Releases ==
    { r \in UNION {[1..n -> {Asset(a) : a \in AssetNames}] : n \in 0..MaxAssets} :
        \A i, j \in DOMAIN r : r[i].name = r[j].name => i = j }

\* find with a predicate that holds of every asset
FindAny(assets, n) == IF assets = <<>> THEN None ELSE Some(Head(assets))

\* lines 104-107: Iterator::find, the first asset of that name
RECURSIVE Find(_, _)
Find(assets, n) ==
    IF assets = <<>> THEN None
    ELSE IF Head(assets).name = n THEN Some(Head(assets))
    ELSE Find(Tail(assets), n)

\* line 111: &asset.name[..64] panics on a name shorter than 64 bytes
Slice64(n) == IF Len(n) < 64 THEN None ELSE Some(SubSeq(n, 1, 64))

(***************************************************************************)
(* Lines 131-144: the instance directory of the launcher.                  *)
(***************************************************************************)
Envs ==
    [APPDATA : {None, Some("C:\\Users\\steve\\AppData\\Roaming")},
     HOMEDRIVE : {None, Some("C:")},
     HOMEPATH : {None, Some("\\Users\\steve")}]

Err(msg) == [ok |-> FALSE, value |-> msg]
Val(v) == [ok |-> TRUE, value |-> v]

\* unwrap_or_default: an unset variable reads as the empty string
VarOrEmpty(e, n) == IF e[n] = None THEN Val("") ELSE Val(e[n][1])

\* env::var(name).context(..)?: the value, or the error of the unset variable
Var(e, n) == IF e[n] = None THEN Err("Failed to get " \o n) ELSE Val(e[n][1])

\* the last arm a catch-all, as in the match of line 98
profile_dirCatchAll(c, e) ==
    CASE c = "1" ->
           IF Var(e, "APPDATA").ok
           THEN Val(Var(e, "APPDATA").value \o "\\ModrinthApp\\profiles")
           ELSE Var(e, "APPDATA")
      [] c = "2" ->
           IF ~Var(e, "HOMEDRIVE").ok THEN Var(e, "HOMEDRIVE")
           ELSE IF ~Var(e, "HOMEPATH").ok THEN Var(e, "HOMEPATH")
           ELSE Val(Var(e, "HOMEDRIVE").value \o Var(e, "HOMEPATH").value
                      \o "\\curseforge\\minecraft\\Instances")
      [] OTHER ->
           IF Var(e, "APPDATA").ok
           THEN Val(Var(e, "APPDATA").value \o "\\PrismLauncher\\instances")
           ELSE Var(e, "APPDATA")

profile_dir(c, e) ==
    CASE c = "1" ->
           IF Var(e, "APPDATA").ok
           THEN Val(Var(e, "APPDATA").value \o "\\ModrinthApp\\profiles")
           ELSE Var(e, "APPDATA")
      [] c = "2" ->
           IF ~Var(e, "HOMEDRIVE").ok THEN Var(e, "HOMEDRIVE")
           ELSE IF ~Var(e, "HOMEPATH").ok THEN Var(e, "HOMEPATH")
           ELSE Val(Var(e, "HOMEDRIVE").value \o Var(e, "HOMEPATH").value
                      \o "\\curseforge\\minecraft\\Instances")
      [] c = "3" ->
           IF Var(e, "APPDATA").ok
           THEN Val(Var(e, "APPDATA").value \o "\\PrismLauncher\\instances")
           ELSE Var(e, "APPDATA")
      [] OTHER -> Err("Invalid choice")

\* the join left out: the instances directory itself
TargetDirNoJoin(base) == <<base>>

\* line 144: PathBuf::join, a path being its components
Join(base, component) == <<base, component>>
\* line 144: the directory of the pack under the instances of the launcher
TargetDir(base) == Join(base, "Originalife Season 4")

(***************************************************************************)
(* Lines 26-37: the cache file of an asset.                                *)
(***************************************************************************)
get_cache_dir == "originalife_s4_cache"
get_cached_file_path(name, sha) == <<get_cache_dir, sha \o "-" \o name>>

(***************************************************************************)
(* Lines 152-155: the archive.  The container of the model: a first byte   *)
(* 255 marks an archive, and every further byte is one entry, 0 the file   *)
(* pack.toml and 255 the directory mods.                                   *)
(***************************************************************************)
IsZip(bytes) == Len(bytes) >= 1 /\ bytes[1] = 255
ZipEntry(b) ==
    IF b = 0 THEN [name |-> "pack.toml", dir |-> FALSE, from |-> "archive"]
    ELSE [name |-> "mods", dir |-> TRUE, from |-> "archive"]
ZipEntries(bytes) == [i \in 1..(Len(bytes) - 1) |-> ZipEntry(bytes[i + 1])]

\* a directory is its entries by name
EmptyDir == [n \in {} |-> [name |-> n, dir |-> FALSE, from |-> "old"]]
OldDir ==
    [n \in {"options.txt", "mods"} |-> [name |-> n, dir |-> n = "mods", from |-> "old"]]

\* the instance directories the environments of the model resolve to
AllTargets ==
    { TargetDir(profile_dir(c, e).value) :
        c \in {"1", "2", "3"}, e \in {x \in Envs : \A n \in DOMAIN x : x[n] # None} }

\* the instance directories before the first run: none, empty ones, used ones
InitialDirs ==
    { [d \in {} |-> EmptyDir], [d \in AllTargets |-> EmptyDir],
      [d \in AllTargets |-> OldDir] }

\* the checksums a run may be given: of an archive, of a file that is no
\* archive, and one written in upper case
Checksums ==
    { downloaded_sha256(<<255, 0>>), downloaded_sha256(<<0>>),
      "6E340B9CFFB37A989CA544E6BB780A2C78901D3FB33738768511A30617AFA01D" }

(***************************************************************************)
(* The run.                                                                *)
(***************************************************************************)
Filesystem == [cache |-> cache, cwd |-> cwd, dirs |-> dirs]

\* the run executes the step at `label` and goes on at `next`
Goto(label, next) ==
    /\ pc = label
    /\ pc' = next
    /\ visited' = visited \cup {label}

\* the run ends at `label` with `outcome`
End(label, outcome) ==
    /\ Goto(label, "done")
    /\ result' = outcome

RunVars ==
    /\ result = Running
    /\ printed = <<>>
    /\ visited = {}
    /\ response = None
    /\ received = <<>>
    /\ requests = 0
    /\ content = <<>>
    /\ todo = {}
    /\ archive = <<>>
    /\ target_dir = None

Init ==
    /\ pc = "start"
    /\ run = 1
    /\ RunVars
    /\ release = None
    /\ choice = ""
    /\ artifact_name = ""
    /\ asset = None
    /\ sha256 = ""
    /\ env \in Envs
    /\ cache = NoFiles
    /\ cwd = NoFiles
    /\ dirs \in InitialDirs
    /\ start = Filesystem
    /\ fetched = NoFiles
    /\ suspended = None

\* lines 75-83: the latest release, or the request fails
GetLatest ==
    /\ \/ /\ Goto("start", "read_choice")
          /\ \E r \in Releases : release' = Some(r)
          /\ UNCHANGED result
       \/ /\ End("start", "Failed to fetch latest release")
          /\ UNCHANGED release
    /\ UNCHANGED <<printed, run, choice, artifact_name, asset, process, sha256, content,
                   network, install, files, start, fetched>>

\* lines 85-96: the prompt, and the trimmed line the user enters
ReadChoice ==
    /\ Goto("read_choice", "select")
    /\ \E line \in Lines : choice' = trim(line)
    /\ UNCHANGED <<result, printed, run, release, artifact_name, asset, process, sha256,
                   content, network, install, files, start, fetched>>

\* lines 98-108: the asset of the launcher among the assets of the release
SelectAsset ==
    /\ pc = "select"
    /\ artifact_name' = ArtifactName(choice)
    /\ asset' = Find(release[1], artifact_name')
    /\ Goto("select", IF asset' = None THEN "not_available" ELSE "slice")
    /\ UNCHANGED <<result, printed, run, release, choice, process, sha256, content,
                   network, install, files, start, fetched>>

\* the missing asset as an error
NotAvailableFails ==
    /\ End("not_available", "asset not found")
    /\ UNCHANGED <<printed, run, inputs, sha256, content, network, install, files,
                   start, fetched>>

\* lines 160-164: no such asset: a message, and main returns Ok(())
NotAvailable ==
    /\ End("not_available", Ok)
    /\ printed' = Append(printed, "No new release found or '" \o artifact_name
                                    \o "' not available.")
    /\ UNCHANGED <<run, inputs, sha256, content, network, install, files, start,
                   fetched>>

\* lines 109-111: the checksum is the first 64 bytes of the asset's name
SliceChecksum ==
    /\ pc = "slice"
    /\ IF Slice64(asset[1].name) = None
       THEN /\ End("slice", Panic)
            /\ UNCHANGED sha256
       ELSE /\ Goto("slice", "cache_lookup")
            /\ sha256' = Slice64(asset[1].name)[1]
            /\ UNCHANGED result
    /\ UNCHANGED <<printed, run, inputs, content, network, install, files, start,
                   fetched>>

Next ==
    \/ GetLatest
    \/ ReadChoice
    \/ SelectAsset
    \/ NotAvailable
    \/ SliceChecksum

Spec == Init /\ [][Next]_vars

(***************************************************************************)
(* Lines 113-159, the body of the `if let Some(asset)` branch.             *)
(***************************************************************************)
cache_file_path == get_cached_file_path(artifact_name, sha256)
temp_file == artifact_name

\* the run has its content (line 126): the first to get it for a path is noted
NoteFetched(bytes) ==
    fetched' = IF cache_file_path \in DOMAIN fetched THEN fetched
               ELSE WriteFile(fetched, cache_file_path, [bytes |-> bytes, run |-> run])

\* the lookup that never finds the entry
CacheLookupAlwaysMisses ==
    /\ Goto("cache_lookup", "send")
    /\ UNCHANGED <<result, printed, run, inputs, sha256, content, network, install,
                   files, start, fetched>>

\* lines 113-115: is the asset in the cache?
CacheLookup ==
    /\ pc = "cache_lookup"
    /\ IF cache_file_path \in DOMAIN cache
       THEN /\ Goto("cache_lookup", "cache_read")
            /\ printed' = Append(printed, "Using cached file")
       ELSE /\ Goto("cache_lookup", "send")
            /\ UNCHANGED printed
    /\ UNCHANGED <<result, run, inputs, sha256, content, network, install, files,
                   start, fetched>>

\* lines 116-121: the cached file is the content
ReadCached ==
    /\ pc = "cache_read"
    /\ IF cache_file_path \in DOMAIN cache
       THEN /\ Goto("cache_read", "temp_create")
            /\ content' = cache[cache_file_path]
            /\ NoteFetched(content')
            /\ UNCHANGED result
       ELSE /\ End("cache_read", "Failed to open cached file")
            /\ UNCHANGED <<content, fetched>>
    /\ UNCHANGED <<printed, run, inputs, sha256, network, install, files, start>>

\* the instance directories emptied while the request is on its way
SendRequestClearing ==
    /\ \/ /\ Goto("send", "chunk")
          /\ \E body \in Contents : response' = Some(body)
          /\ requests' = requests + 1
          /\ content' = <<>>
          /\ UNCHANGED result
       \/ /\ End("send", "Failed to send request")
          /\ requests' = requests + 1
          /\ UNCHANGED <<response, content>>
    /\ dirs' = [d \in DOMAIN dirs |-> EmptyDir]
    /\ UNCHANGED <<printed, run, inputs, sha256, received, install, cache, cwd,
                   start, fetched>>

\* lines 46-51: the GET request: a response whose body is any bytes, or an error
SendRequest ==
    /\ \/ /\ Goto("send", "chunk")
          /\ \E body \in Contents : response' = Some(body)
          /\ requests' = requests + 1
          /\ content' = <<>>
          /\ UNCHANGED result
       \/ /\ End("send", "Failed to send request")
          /\ requests' = requests + 1
          /\ UNCHANGED <<response, content>>
    /\ UNCHANGED <<printed, run, inputs, sha256, received, install, files, start,
                   fetched>>

\* the chunk replaces the content instead of extending it
replace_with_slice(vec, chunk) == chunk

\* line 54: Vec::extend_from_slice
extend_from_slice(vec, chunk) == vec \o chunk

\* lines 53-56: the next chunk of the body, its end, or an error
ReadChunk ==
    /\ pc = "chunk"
    /\ \/ /\ response[1] # <<>>
          /\ Goto("chunk", "chunk")
          /\ \E n \in 1..Len(response[1]) :
                LET chunk == SubSeq(response[1], 1, n)
                IN  /\ content' = extend_from_slice(content, chunk)
                    /\ received' = received \o chunk
                    /\ response' = Some(SubSeq(response[1], n + 1, Len(response[1])))
          /\ UNCHANGED result
       \/ /\ response[1] = <<>>
          /\ Goto("chunk", "verify")
          /\ UNCHANGED <<result, content, received, response>>
       \/ /\ End("chunk", "Failed to read chunk")
          /\ UNCHANGED <<content, received, response>>
    /\ UNCHANGED <<printed, run, inputs, sha256, requests, install, files, start,
                   fetched>>

\* the comparison left out
MismatchNeverFound(bytes, expected) == FALSE

\* line 66: the digest of the content is not the expected one
Mismatch(bytes, expected) == downloaded_sha256(bytes) # expected

\* lines 58-70: the digest of the whole content against the checksum
Verify ==
    /\ pc = "verify"
    /\ IF Mismatch(content, sha256)
       THEN End("verify", "SHA256 mismatch for downloaded file")
       ELSE /\ Goto("verify", "cache_create")
            /\ UNCHANGED result
    /\ UNCHANGED <<printed, run, inputs, sha256, content, network, install, files,
                   start, fetched>>

\* line 124, fs::write: the file is created (or truncated) ...
CreateCacheFile ==
    /\ Goto("cache_create", "cache_write")
    /\ cache' = WriteFile(cache, cache_file_path, <<>>)
    /\ UNCHANGED <<result, printed, run, inputs, sha256, content, network, install,
                   cwd, dirs, start, fetched>>

\* a write that drops the last byte
CachedBytesTruncated(bytes) == SubSeq(bytes, 1, Len(bytes) - 1)

\* the bytes the cache file holds once written
CachedBytes(bytes) == bytes

\* ... and the content written to it, unless the write fails
WriteCacheFile ==
    /\ \/ /\ Goto("cache_write", "temp_create")
          /\ cache' = WriteFile(cache, cache_file_path, CachedBytes(content))
          /\ NoteFetched(content)
          /\ UNCHANGED result
       \/ /\ End("cache_write", "Failed to write cache file")
          /\ UNCHANGED <<cache, fetched>>
    /\ UNCHANGED <<printed, run, inputs, sha256, content, network, install, cwd, dirs,
                   start>>

\* lines 128-129, fs::write: the temporary file is created (or truncated) ...
CreateTempFile ==
    /\ Goto("temp_create", "temp_write")
    /\ cwd' = WriteFile(cwd, temp_file, <<>>)
    /\ UNCHANGED <<result, printed, run, inputs, sha256, content, network, install,
                   cache, dirs, start, fetched>>

\* ... and the content written to it, unless the write fails
WriteTempFile ==
    /\ \/ /\ Goto("temp_write", "resolve")
          /\ cwd' = WriteOpenFile(cwd, temp_file, content)
          /\ UNCHANGED result
       \/ /\ End("temp_write", "Failed to write temporary file")
          /\ UNCHANGED cwd
    /\ UNCHANGED <<printed, run, inputs, sha256, content, network, install,
                   cache, dirs, start, fetched>>

\* lines 131-144: the instance directory, or the error of the match
Resolve ==
    /\ pc = "resolve"
    /\ IF profile_dir(choice, env).ok
       THEN /\ Goto("resolve", "target_exists")
            /\ target_dir' = Some(TargetDir(profile_dir(choice, env).value))
            /\ UNCHANGED result
       ELSE /\ End("resolve", profile_dir(choice, env).value)
            /\ UNCHANGED target_dir
    /\ UNCHANGED <<printed, run, inputs, sha256, content, network, todo, archive,
                   files, start, fetched>>

\* lines 145-149: clear the directory if there is one, create it if not
TargetExists ==
    /\ pc = "target_exists"
    /\ IF target_dir[1] \in DOMAIN dirs
       THEN /\ Goto("target_exists", "clear")
            /\ todo' = DOMAIN dirs[target_dir[1]]
            /\ UNCHANGED dirs
       ELSE /\ Goto("target_exists", "open_temp")
            /\ dirs' = WriteFile(dirs, target_dir[1], EmptyDir)
            /\ UNCHANGED todo
    /\ UNCHANGED <<result, printed, run, inputs, sha256, content, network, archive,
                   target_dir, cache, cwd, start, fetched>>

\* remove_file alone: directories are left
RemovesFilesOnly(entry) == ~entry.dir

\* lines 17-21: what remove_dir_contents removes of an entry: all of it
Removes(entry) == TRUE

\* lines 13-24, remove_dir_contents: entry by entry, in the order of read_dir
RemoveEntry ==
    /\ pc = "clear"
    /\ \/ /\ todo # {}
          /\ Goto("clear", "clear")
          /\ \E n \in todo :
                /\ n \in DOMAIN dirs[target_dir[1]]
                /\ todo' = todo \ {n}
                /\ dirs' = IF Removes(dirs[target_dir[1]][n])
                           THEN [dirs EXCEPT ![target_dir[1]] = RemoveFile(@, n)]
                           ELSE dirs
          /\ UNCHANGED result
       \/ /\ todo = {}
          /\ Goto("clear", "open_temp")
          /\ UNCHANGED <<result, todo, dirs>>
       \/ /\ todo # {}
          /\ End("clear", "Failed to clean target directory")
          /\ UNCHANGED <<todo, dirs>>
    /\ UNCHANGED <<printed, run, inputs, sha256, content, network, archive, target_dir,
                   cache, cwd, start, fetched>>

\* lines 151-152: the temporary file, opened as an archive
OpenArchive ==
    /\ pc = "open_temp"
    /\ IF temp_file \notin DOMAIN cwd
       THEN /\ End("open_temp", "Failed to open temporary file")
            /\ UNCHANGED archive
       ELSE IF ~IsZip(cwd[temp_file])
       THEN /\ End("open_temp", "Failed to create ZIP archive")
            /\ UNCHANGED archive
       ELSE /\ Goto("open_temp", "extract")
            /\ archive' = ZipEntries(cwd[temp_file])
            /\ UNCHANGED result
    /\ UNCHANGED <<printed, run, inputs, sha256, content, network, todo, target_dir,
                   files, start, fetched>>

\* an entry of the archive can be written into the directory
Extractable(dir, e) == e.name \in DOMAIN dir => dir[e.name].dir = e.dir

\* the directory with the entry extracted: a file is (over)written, a
\* directory that is there already is kept as it is
Extracted(dir, e) ==
    IF e.name \in DOMAIN dir /\ e.dir THEN dir ELSE WriteFile(dir, e.name, e)

\* lines 153-155, ZipArchive::extract: entry by entry, in the archive's order
ExtractEntry ==
    /\ pc = "extract"
    /\ \/ /\ archive # <<>>
          /\ Extractable(dirs[target_dir[1]], Head(archive))
          /\ Goto("extract", "extract")
          /\ dirs' = [dirs EXCEPT ![target_dir[1]] = Extracted(@, Head(archive))]
          /\ archive' = Tail(archive)
          /\ UNCHANGED result
       \/ /\ archive = <<>>
          /\ Goto("extract", "remove_temp")
          /\ UNCHANGED <<result, archive, dirs>>
       \/ /\ archive # <<>>
          /\ End("extract", "Failed to extract ZIP archive")
          /\ UNCHANGED <<archive, dirs>>
    /\ UNCHANGED <<printed, run, inputs, sha256, content, network, todo, target_dir,
                   cache, cwd, start, fetched>>

\* the temporary file left where it is
RemoveTempSkipped ==
    /\ Goto("remove_temp", "report")
    /\ UNCHANGED <<result, printed, run, inputs, sha256, content, network, install,
                   files, start, fetched>>

\* line 157: the temporary file is deleted, unless the removal fails
RemoveTemp ==
    /\ \/ /\ temp_file \in DOMAIN cwd
          /\ Goto("remove_temp", "report")
          /\ cwd' = RemoveFile(cwd, temp_file)
          /\ UNCHANGED result
       \/ /\ End("remove_temp", "Failed to remove temporary file")
          /\ UNCHANGED cwd
    /\ UNCHANGED <<printed, run, inputs, sha256, content, network, install,
                   cache, dirs, start, fetched>>

\* lines 159-164: the success message, and main returns Ok(())
Report ==
    /\ End("report", Ok)
    /\ printed' = Append(printed, "Update completed successfully!")
    /\ UNCHANGED <<run, inputs, sha256, content, network, install, files, start,
                   fetched>>

\* the choices a run of the body is entered with, and the asset found for each
BodyChoices == {"1", "2", "3", "9"}

BodyInputs ==
    /\ choice' \in BodyChoices
    /\ artifact_name' = ArtifactName(choice')
    /\ asset' = Some(Asset(artifact_name'))
    /\ release' = Some(<<Asset(artifact_name')>>)
    /\ sha256' \in Checksums

InitBody ==
    /\ pc = "cache_lookup"
    /\ run = 1
    /\ RunVars
    /\ choice \in BodyChoices
    /\ artifact_name = ArtifactName(choice)
    /\ asset = Some(Asset(artifact_name))
    /\ release = Some(<<Asset(artifact_name)>>)
    /\ sha256 \in Checksums
    /\ env \in Envs
    /\ cache = NoFiles
    /\ cwd = NoFiles
    /\ dirs \in InitialDirs
    /\ start = Filesystem
    /\ fetched = NoFiles
    /\ suspended = None

\* the next run of the program, on the filesystem the last one left
NextRun ==
    /\ pc = "done"
    /\ run < MaxRuns
    /\ run' = run + 1
    /\ pc' = "cache_lookup"
    /\ BodyInputs
    /\ result' = Running
    /\ printed' = <<>>
    /\ visited' = {}
    /\ response' = None
    /\ received' = <<>>
    /\ requests' = 0
    /\ content' = <<>>
    /\ todo' = {}
    /\ archive' = <<>>
    /\ target_dir' = None
    /\ start' = Filesystem
    /\ UNCHANGED <<process, files, fetched>>

NextBody ==
    \/ CacheLookup
    \/ ReadCached
    \/ SendRequest
    \/ ReadChunk
    \/ Verify
    \/ CreateCacheFile
    \/ WriteCacheFile
    \/ CreateTempFile
    \/ WriteTempFile
    \/ Resolve
    \/ TargetExists
    \/ RemoveEntry
    \/ OpenArchive
    \/ ExtractEntry
    \/ RemoveTemp
    \/ Report
    \/ NextRun

SpecBody == InitBody /\ [][NextBody]_vars

(***************************************************************************)
(* Two runs of lines 113-159 for the same asset at the same time, over one *)
(* filesystem: two processes, without a lock (the code takes none), that   *)
(* the scheduler interleaves between any two filesystem operations.        *)
(***************************************************************************)
\* what a run keeps in its own memory
Locals ==
    [pc |-> pc, result |-> result, printed |-> printed, visited |-> visited,
     run |-> run, response |-> response, received |-> received,
     requests |-> requests, content |-> content, todo |-> todo,
     archive |-> archive, target_dir |-> target_dir, start |-> start]

\* the scheduler takes the processor from one run and gives it to the other
Switch ==
    /\ suspended # None
    /\ suspended[1].pc # "done"
    /\ suspended' = Some(Locals)
    /\ pc' = suspended[1].pc
    /\ result' = suspended[1].result
    /\ printed' = suspended[1].printed
    /\ visited' = suspended[1].visited
    /\ run' = suspended[1].run
    /\ response' = suspended[1].response
    /\ received' = suspended[1].received
    /\ requests' = suspended[1].requests
    /\ content' = suspended[1].content
    /\ todo' = suspended[1].todo
    /\ archive' = suspended[1].archive
    /\ target_dir' = suspended[1].target_dir
    /\ start' = suspended[1].start
    /\ UNCHANGED <<release, choice, artifact_name, asset, sha256, env, files, fetched>>

\* the launchers and the environment of the two runs
ConcurrentChoices == {"1", "2"}
ConcurrentEnvs == {e \in Envs : \A n \in DOMAIN e : e[n] # None}

InitConcurrent ==
    /\ pc = "cache_lookup"
    /\ run = 1
    /\ RunVars
    /\ choice \in ConcurrentChoices
    /\ artifact_name = ArtifactName(choice)
    /\ asset = Some(Asset(artifact_name))
    /\ release = Some(<<Asset(artifact_name)>>)
    /\ sha256 \in Checksums
    /\ env \in ConcurrentEnvs
    /\ cache = NoFiles
    /\ cwd = NoFiles
    /\ dirs \in InitialDirs
    /\ start = Filesystem
    /\ fetched = NoFiles
    /\ suspended = Some([Locals EXCEPT !.run = 2])

NextConcurrent ==
    \/ CacheLookup
    \/ ReadCached
    \/ SendRequest
    \/ ReadChunk
    \/ Verify
    \/ CreateCacheFile
    \/ WriteCacheFile
    \/ CreateTempFile
    \/ WriteTempFile
    \/ Resolve
    \/ TargetExists
    \/ RemoveEntry
    \/ OpenArchive
    \/ ExtractEntry
    \/ RemoveTemp
    \/ Report
    \/ Switch

SpecConcurrent == InitConcurrent /\ [][NextConcurrent]_vars

(***************************************************************************)
(* The properties.                                                         *)
(***************************************************************************)
ExecutedBy(label) == label \in visited

\* the SHA-256 digests of the bodies of up to three bytes, from a reference
\* implementation, in lower-case hex
ReferenceDigest(c) ==
    CASE c = <<>> ->
           "e3b0c44298fc1c149afbf4c8996fb92427ae41e4649b934ca495991b7852b855"
      [] c = <<0>> ->
           "6e340b9cffb37a989ca544e6bb780a2c78901d3fb33738768511a30617afa01d"
      [] c = <<255>> ->
           "a8100ae6aa1940d0b663bb31cd466142ebbdbd5187131b92d93818987832eb89"
      [] c = <<0, 0>> ->
           "96a296d224f285c67bee93c30f8a309157f0daa35dc5b87e410b78630a09cfc7"
      [] c = <<0, 255>> ->
           "06eb7d6a69ee19e5fbdf749018d3d2abfa04bcbd1365db312eb86dc7169389b8"
      [] c = <<255, 0>> ->
           "ea5dbf9596d187e9500f23e9a680109475341cf4e81f7e043f7d97152c10772f"
      [] c = <<255, 255>> ->
           "ca2fd00fa001190744c15c317643ab092e7048ce086a243e2be9437c898de1bb"
      [] c = <<0, 0, 0>> ->
           "709e80c88487a2411e1ee4dfb9f22a861492d20c4765150c0c794abd70f8147c"
      [] c = <<0, 0, 255>> ->
           "ae974d4a74c2371d8cfe842b7aa4f6698de8570526eeb3db1941b0b72311d470"
      [] c = <<0, 255, 0>> ->
           "2c8d07cd986f58eb210bd800133d6645c7340c59865377c8ea431cebca0b3113"
      [] c = <<0, 255, 255>> ->
           "7951f9866246942566985c82c9363da4674caa673f3c4f7919927330aba37404"
      [] c = <<255, 0, 0>> ->
           "7fa54a42524916a1648ec76ce75d295024840b7a3a4f4bbaf3e43155d0014767"
      [] c = <<255, 0, 255>> ->
           "29a6a173e5511d494a74cddb35b9d04ad02ea5060e406779d5c10f35f4862249"
      [] c = <<255, 255, 0>> ->
           "074d99c983072816cbc8d980c4a2fd441f6036aca06f83ee14e05cab5afbed85"
      [] c = <<255, 255, 255>> ->
           "5ae7e6a42304dc6e4176210b83c43024f99a0bce9a870c3b6d2c95fc8ebfb74c"

\* C1: once the asset is selected, the expected name is the one of the trimmed
\* choice ("1": modrinth, "2": curseforge, anything else: prism), and the
\* selected asset is the asset of the release with exactly that name, if any,
\* wherever it stands in the list.
C1_AssetSelection ==
    ExecutedBy("select") =>
        /\ artifact_name = IF choice = "1" THEN "updated-pack-modrinth.zip"
                           ELSE IF choice = "2" THEN "updated-pack-curseforge.zip"
                           ELSE "updated-pack-prism.zip"
        /\ IF \E i \in DOMAIN release[1] : release[1][i].name = artifact_name
           THEN /\ asset # None
                /\ asset[1].name = artifact_name
                /\ \E i \in DOMAIN release[1] : release[1][i] = asset[1]
           ELSE asset = None

C1_Witness ==
    /\ ExecutedBy("select")
    /\ choice = "2"
    /\ release = Some(<<Asset("updated-pack-modrinth.zip"),
                        Asset("updated-pack-curseforge.zip")>>)
    /\ asset = Some(Asset("updated-pack-curseforge.zip"))

\* C2: when download_file has received a whole body, the content it holds is
\* exactly the bytes received; it returns them when their lower-case hex
\* SHA-256 is the expected checksum, and fails with the mismatch error when it
\* is not; bodies that differ in one byte have different digests.
C2_VerifiedDownload ==
    /\ ExecutedBy("verify") =>
          /\ content = received
          /\ IF ReferenceDigest(received) = sha256
             THEN result # "SHA256 mismatch for downloaded file"
                    /\ (pc = "cache_create" \/ ExecutedBy("cache_create"))
             ELSE result = "SHA256 mismatch for downloaded file" /\ pc = "done"
    /\ \A c, d \in Contents :
          (Len(c) = Len(d) /\ Cardinality({i \in DOMAIN c : c[i] # d[i]}) = 1)
             => downloaded_sha256(c) # downloaded_sha256(d)

C2_Witness ==
    /\ pc = "cache_create"
    /\ received = <<255, 0>>
    /\ content = <<255, 0>>
    /\ sha256 = ReferenceDigest(<<255, 0>>)

\* C3: when the digest of the downloaded content is not the expected checksum,
\* the run has failed and the filesystem is as the run found it: no cache
\* entry, no temporary file, the instance directories untouched.
C3_MismatchLeavesNothing ==
    (ExecutedBy("verify") /\ ReferenceDigest(received) # sha256) =>
        /\ pc = "done"
        /\ result = "SHA256 mismatch for downloaded file"
        /\ cache = start.cache
        /\ cwd = start.cwd
        /\ dirs = start.dirs

C3_Witness ==
    /\ result = "SHA256 mismatch for downloaded file"
    /\ received = <<0, 255>>
    /\ sha256 = ReferenceDigest(<<0>>)
    /\ start.dirs # <<>>

\* C4: a run that comes after a run that fetched the same (checksum, asset name)
\* finds the cache entry, sends no request, verifies nothing, and its content
\* is the bytes the first run got.
C4_CacheIdempotent ==
    (cache_file_path \in DOMAIN fetched /\ fetched[cache_file_path].run < run) =>
        /\ requests = 0
        /\ visited \cap {"send", "chunk", "verify", "cache_create", "cache_write"} = {}
        /\ pc \in {"cache_lookup", "cache_read"} \/ ExecutedBy("cache_read")
        /\ ExecutedBy("cache_read") =>
              /\ content = fetched[cache_file_path].bytes
              /\ result # "Failed to open cached file"

C4_Witness ==
    /\ run = 2
    /\ cache_file_path \in DOMAIN fetched
    /\ fetched[cache_file_path].run = 1
    /\ ExecutedBy("cache_read")
    /\ content = <<255, 0>>
    /\ result = Ok

\* C5: when the run has installed, the instance directory holds exactly the
\* entries of the archive, nothing of what was there before; the directory is
\* there before anything is extracted into it.
C5_InstallReplaces ==
    /\ (result = Ok /\ ExecutedBy("report")) =>
          /\ target_dir # None
          /\ target_dir[1] \in DOMAIN dirs
          /\ {dirs[target_dir[1]][n] : n \in DOMAIN dirs[target_dir[1]]}
               = {ZipEntries(content)[i] : i \in DOMAIN ZipEntries(content)}
          /\ \A n \in DOMAIN dirs[target_dir[1]] : dirs[target_dir[1]][n].from = "archive"
    /\ pc \in {"extract", "remove_temp", "report"} => target_dir[1] \in DOMAIN dirs

C5_Witness ==
    /\ result = Ok
    /\ ExecutedBy("clear")
    /\ start.dirs[target_dir[1]] = OldDir
    /\ DOMAIN dirs[target_dir[1]] = {"pack.toml"}

\* C6: with a choice other than "1", "2" and "3" the resolution of the instance
\* directory fails with "Invalid choice", and no instance directory is
\* created, cleared or extracted into.
C6_InvalidChoice ==
    choice \notin {"1", "2", "3"} =>
        /\ dirs = start.dirs
        /\ target_dir = None
        /\ visited \cap {"target_exists", "clear", "open_temp", "extract"} = {}
        /\ ExecutedBy("resolve") => (pc = "done" /\ result = "Invalid choice")

C6_Witness ==
    /\ choice = "9"
    /\ result = "Invalid choice"
    /\ \E d \in DOMAIN dirs : dirs[d] = OldDir

C8_NotAvailable ==
    (/\ pc = "done"
     /\ release # None
     /\ \A i \in DOMAIN release[1] :
           release[1][i].name # (IF choice = "1" THEN "updated-pack-modrinth.zip"
                                 ELSE IF choice = "2" THEN "updated-pack-curseforge.zip"
                                 ELSE "updated-pack-prism.zip")) =>
        /\ result = Ok
        /\ printed = <<"No new release found or '" \o artifact_name \o "' not available.">>
        /\ requests = 0
        /\ cache = start.cache /\ cache = NoFiles
        /\ cwd = start.cwd /\ cwd = NoFiles
        /\ dirs = start.dirs

C8_Witness ==
    /\ pc = "done"
    /\ choice = "2"
    /\ release = Some(<<Asset("updated-pack-modrinth.zip"), Asset("changelog.md")>>)
    /\ result = Ok

\* C9: the instance directory resolved for a valid choice is the base of the
\* launcher (from APPDATA, or from HOMEDRIVE and HOMEPATH) joined with
\* "Originalife Season 4".
C9_ResolvedDirectory ==
    /\ target_dir # None =>
          /\ choice \in {"1", "2", "3"}
          /\ choice = "1" =>
                target_dir[1] = <<env.APPDATA[1] \o "\\ModrinthApp\\profiles",
                                  "Originalife Season 4">>
          /\ choice = "2" =>
                target_dir[1] = <<env.HOMEDRIVE[1] \o env.HOMEPATH[1]
                                    \o "\\curseforge\\minecraft\\Instances",
                                  "Originalife Season 4">>
          /\ choice = "3" =>
                target_dir[1] = <<env.APPDATA[1] \o "\\PrismLauncher\\instances",
                                  "Originalife Season 4">>
    /\ (ExecutedBy("resolve") /\ pc # "done") => target_dir # None

C9_Witness ==
    /\ choice = "2"
    /\ target_dir = Some(<<"C:\\Users\\steve\\curseforge\\minecraft\\Instances",
                           "Originalife Season 4">>)

\* the variables the launcher of a choice needs
Required(c) ==
    IF c \in {"1", "3"} THEN {"APPDATA"}
    ELSE IF c = "2" THEN {"HOMEDRIVE", "HOMEPATH"} ELSE {}

\* C10: when a variable the launcher needs is unset, the run fails at the
\* resolution with the error of such a variable, and no instance directory is
\* touched; when all it needs are set, no variable is reported missing,
\* whatever else is unset.
C10_RequiredEnvironment ==
    ExecutedBy("resolve") =>
        IF \E n \in Required(choice) : env[n] = None
        THEN /\ pc = "done"
             /\ \E n \in Required(choice) :
                   env[n] = None /\ result = "Failed to get " \o n
             /\ target_dir = None
             /\ dirs = start.dirs
        ELSE \A n \in DOMAIN env : result # "Failed to get " \o n

C10_Witness ==
    /\ choice = "2"
    /\ env.HOMEDRIVE # None
    /\ env.HOMEPATH = None
    /\ result = "Failed to get HOMEPATH"
    /\ \E d \in DOMAIN dirs : dirs[d] = OldDir

\* C11: when the name of the selected asset holds no checksum (it has no
\* first 64 bytes to take one from), the run does not stop for it: it goes on
\* to the cache lookup and the download.
C11_NoChecksumGoesOn ==
    (asset # None /\ Slice64(asset[1].name) = None /\ ExecutedBy("slice")) =>
        (pc = "cache_lookup" /\ result = Running)

\* C12: for every choice whose asset is in the release, the checksum is the
\* first 64 bytes of the asset's name: the name is that long, and the run
\* comes to the cache lookup with it.
C12_ChecksumSliceSucceeds ==
    (asset # None /\ pc \notin {"select", "slice"}) =>
        /\ Len(asset[1].name) >= 64
        /\ result # Panic
        /\ sha256 = SubSeq(asset[1].name, 1, 64)

C14_Sequential ==
    /\ (\/ dirs # start.dirs
        \/ pc \in {"target_exists", "clear", "open_temp", "extract"}
        \/ visited \cap {"target_exists", "clear", "open_temp", "extract"} # {}) =>
          /\ release # None
          /\ \/ ExecutedBy("cache_read") /\ requests = 0
             \/ /\ ExecutedBy("verify")
                /\ response = Some(<<>>)
                /\ content = received
                /\ ReferenceDigest(content) = sha256
    /\ (pc = "extract" \/ ExecutedBy("extract")) =>
          /\ ExecutedBy("target_exists")
          /\ todo = {}
          /\ target_dir[1] \in DOMAIN dirs
    /\ result \in {"Failed to fetch latest release", "Failed to send request",
                   "Failed to read chunk", "SHA256 mismatch for downloaded file"} =>
          dirs = start.dirs

C14_Witness ==
    /\ pc = "extract"
    /\ ExecutedBy("verify")
    /\ ExecutedBy("clear")
    /\ start.dirs[target_dir[1]] = OldDir
    /\ dirs[target_dir[1]] = EmptyDir
    /\ archive # <<>>

\* C15: the cache only grows: an entry that was there when a run began is
\* there, with the same bytes, at every moment of the run, and a run creates
\* an entry only for a key that had none when it looked it up.
C15_CacheAppendOnly ==
    /\ \A p \in DOMAIN start.cache :
          p \in DOMAIN cache /\ cache[p] = start.cache[p]
    /\ (pc = "cache_write" \/ ExecutedBy("cache_create")) =>
          /\ cache_file_path \notin DOMAIN start.cache
          /\ ExecutedBy("cache_lookup")

C15_Witness ==
    /\ run = 2
    /\ ExecutedBy("cache_write")
    /\ result = Ok
    /\ Cardinality(DOMAIN cache) = 2
    /\ \E p \in DOMAIN start.cache : cache[p] = <<0>>

\* C16: a run reports success only when the archive is extracted to its end
\* and the temporary file is deleted, so the file is not there after a
\* successful run; the temporary file is written only when the run has its
\* content, and no other file of the working directory is written or removed.
C16_TemporaryFile ==
    /\ (pc = "report" \/ ExecutedBy("report")) =>
          /\ ExecutedBy("extract")
          /\ archive = <<>>
          /\ ExecutedBy("remove_temp")
          /\ temp_file \notin DOMAIN cwd
    /\ cwd # start.cwd =>
          /\ ExecutedBy("temp_create")
          /\ ExecutedBy("cache_read") \/ ExecutedBy("cache_write")
    /\ \A f \in (DOMAIN cwd \cup DOMAIN start.cwd) \ {temp_file} :
          /\ f \in DOMAIN cwd
          /\ f \in DOMAIN start.cwd
          /\ cwd[f] = start.cwd[f]

C16_Witness ==
    /\ run = 2
    /\ result = Ok
    /\ ExecutedBy("report")
    /\ temp_file = "updated-pack-modrinth.zip"
    /\ DOMAIN start.cwd = {"updated-pack-prism.zip"}
    /\ cwd = start.cwd

====
